---- MODULE Spec2Model ----
(***************************************************************************)
(* Verification model of the MODFLOW-Madison2025 workshop notebooks.       *)
(*                                                                         *)
(* The notebooks are straight-line programs.  Four parts of them are       *)
(* modelled, each as its own specification over the shared variables (the  *)
(* variables of the other parts rest at their idle values):                *)
(*   SpecRect  the rectangular split loop of step 2 (use_metis = False)    *)
(*   SpecDiag  the diagonal splitting array of the model-splitter example  *)
(*   SpecPrt   the set-up cells and the run of particle tracking example 3 *)
(*   Spec      the load / write / run / read workflow of every notebook    *)
(* MODFLOW 6 and FloPy are not part of the repository.  What the model     *)
(* takes from them: write_simulation puts the input files in the           *)
(* workspace of the simulation object; run_simulation needs them there and *)
(* leaves the outputs there, in a parallel run one convergence file        *)
(* inner.p<rank>.csv per process; split_model returns as many models as    *)
(* the splitting array has domains; numpy calls behave as documented.      *)
(***************************************************************************)
EXTENDS Integers, Sequences, FiniteSets, TLC

VARIABLES
    \* ---- step 2, rectangular split (part_000 lines 222-230)
    rect_pc,        \* "zeros" | "loop" | "done"
    grid_nrow,      \* nrow = gwf.modelgrid.nrow
    grid_ncol,      \* ncol = gwf.modelgrid.ncol
    rect_domains,   \* nr_domains as used by the loop
    split_array,    \* the (nrow, ncol) integer array
    irow, icol,     \* loop counters
    \* ---- model-splitter example 1, diagonal array (part_000 lines 589-594)
    diag_pc,        \* "ones" | "loop" | "done"
    modelgrid_nrow, \* modelgrid.nrow
    modelgrid_ncol, \* modelgrid.ncol
    array,          \* the (nrow, ncol) integer array
    array_ncol,     \* the variable the cell calls ncol: first column of model 2
    row,            \* loop counter
    \* ---- particle tracking example 3 (prt_ex3.ipynb)
    prt_pc,         \* the cell of the notebook that runs next
    prt_i,          \* counter of the loop being run
    rd,             \* river records (their cell ids)
    nodes,          \* the dict of node-number lists
    izone,          \* the zone map, one entry per layer
    wel_spd,        \* stress_period_data of the well package
    dd,             \* drain records (their cell ids)
    prt_release_points,
    mp7_coords,     \* points which to_coords has yielded so far
    mp7_release_points,
    assert_ok,      \* outcome of the np.allclose assertion
    release_times,
    prp,            \* what the release package was given
    kper,           \* stress period of the run
    totim,          \* simulation time at the start of period kper
    wel_log,        \* per period run: its time span and the well records applied
    \* ---- the workflow of the notebooks
    nb,             \* the notebook being executed
    cell,           \* position in its sequence of calls
    files,          \* workspace -> "absent" | "written" | "ran"
    sims,           \* Python variable -> [ws, dirty] of the simulation object
    disk,           \* the files on disk: [ws, name, rank, by]
    use_metis,      \* step 2 setting
    nr_domains,     \* step 2 setting
    nr_cores,       \* step 3 setting
    split_source,   \* what made the current splitting array
    split_used,     \* what made the array given to split_model
    split_models,   \* number of models of the split simulation on disk
    nr_models,      \* step 4: len(parallel_sim.model_names)
    csv_inner_par,  \* step 4: the list of parallel convergence files
    halted          \* an exception has stopped the notebook

rectVars == <<rect_pc, grid_nrow, grid_ncol, rect_domains, split_array, irow, icol>>
diagVars == <<diag_pc, modelgrid_nrow, modelgrid_ncol, array, array_ncol, row>>
prtVars == <<prt_pc, prt_i, rd, nodes, izone, wel_spd, dd, prt_release_points,
             mp7_coords, mp7_release_points, assert_ok, release_times, prp,
             kper, totim, wel_log>>
flowVars == <<nb, cell, files, sims, disk, use_metis, nr_domains, nr_cores,
              split_source, split_used, split_models, nr_models,
              csv_inner_par, halted>>

vars == <<rectVars, diagVars, prtVars, flowVars>>

(***************************************************************************)
(* Bounds of the model.                                                    *)
(***************************************************************************)
MaxGridRow == 2
MaxGridCol == 18
MaxRectDomains == 14
MaxModelRow == 7
MaxModelCol == 5
MaxFlowDomains == 3

(***************************************************************************)
(* IEEE-754 binary64 arithmetic, as far as the split loop needs it.        *)
(* A positive double is [m, e]: value m * 2^e with 2^52 <= m < 2^53.  The  *)
(* 53-bit significand m is held in two limbs <<hi, lo>> of 27 bits each    *)
(* (m = hi * 2^27 + lo) so that every intermediate stays below 2^31.       *)
(***************************************************************************)
LimbBits == 27
LimbBase == 134217728
SigTopLimb == 33554432
SigBits == 53

RECURSIVE Pow2(_)
Pow2(k) == IF k = 0 THEN 1 ELSE 2 * Pow2(k - 1)

LimbDouble(x) ==
    LET lo == 2 * x[2]
    IN  <<2 * x[1] + (lo \div LimbBase), lo % LimbBase>>

LimbGeq(x, y) == x[1] > y[1] \/ (x[1] = y[1] /\ x[2] >= y[2])

LimbSub(x, y) ==
    LET lo == x[2] - y[2]
        br == IF lo < 0 THEN 1 ELSE 0
    IN  <<x[1] - y[1] - br, lo + br * LimbBase>>

LimbInc(x) ==
    LET lo == x[2] + 1
    IN  <<x[1] + (lo \div LimbBase), lo % LimbBase>>

\* shift the significand left until its top bit is bit 52
RECURSIVE Normalize(_, _)
Normalize(m, e) ==
    IF m[1] >= SigTopLimb THEN [m |-> m, e |-> e]
    ELSE Normalize(LimbDouble(m), e - 1)

\* int -> float conversion of a positive Python int (exact below 2^27)
FloatOfInt(n) == Normalize(<<0, n>>, 0)

\* n steps of binary long division: st = [rem, q], divisor d
RECURSIVE LongDiv(_, _, _)
LongDiv(st, d, n) ==
    IF n = 0 THEN st
    ELSE LET r2 == LimbDouble(st.rem)
             q2 == LimbDouble(st.q)
         IN  IF LimbGeq(r2, d)
             THEN LongDiv([rem |-> LimbSub(r2, d), q |-> LimbInc(q2)], d, n - 1)
             ELSE LongDiv([rem |-> r2, q |-> q2], d, n - 1)

\* x / y, correctly rounded (round to nearest, ties to even)
FloatDiv(x, y) ==
    LET big == LimbGeq(x.m, y.m)
        n   == IF big THEN SigBits - 1 ELSE SigBits
        st0 == IF big THEN [rem |-> LimbSub(x.m, y.m), q |-> <<0, 1>>]
                      ELSE [rem |-> x.m, q |-> <<0, 0>>]
        st  == LongDiv(st0, y.m, n)
        r2  == LimbDouble(st.rem)
        up  == (r2 # y.m /\ LimbGeq(r2, y.m)) \/ (r2 = y.m /\ st.q[2] % 2 = 1)
        q1  == IF up THEN LimbInc(st.q) ELSE st.q
        e   == x.e - y.e - n
    IN  IF q1[1] = 2 * SigTopLimb
        THEN [m |-> <<SigTopLimb, 0>>, e |-> e + 1]
        ELSE [m |-> q1, e |-> e]

\* np.floor of a positive double whose value is below 2^31, as an integer
FloatFloor(x) ==
    LET s == 0 - x.e
    IN  IF s >= SigBits THEN 0
        ELSE IF s >= LimbBits THEN x.m[1] \div Pow2(s - LimbBits)
        ELSE x.m[1] * Pow2(LimbBits - s) + (x.m[2] \div Pow2(s))

(***************************************************************************)
(* Step 2: the rectangular split.                                          *)
(***************************************************************************)
\* a mutant: the quotient of the inner division turned upside down
RectIsub_Inverted(c, ncols, ndom) ==
    IF c = 0 THEN 0
    ELSE FloatFloor(FloatDiv(FloatOfInt(c),
                             FloatDiv(FloatOfInt(ndom), FloatOfInt(ncols))))

\* isub = np.floor(icol / (ncol / nr_domains))
RectIsub(c, ncols, ndom) ==
    IF c = 0 THEN 0
    ELSE FloatFloor(FloatDiv(FloatOfInt(c),
                             FloatDiv(FloatOfInt(ncols), FloatOfInt(ndom))))

RectCells == (0 .. grid_nrow - 1) \X (0 .. grid_ncol - 1)

\* cells the loop has already assigned
RectFilled ==
    {rc \in RectCells :
        \/ rect_pc = "done"
        \/ rect_pc = "loop" /\ (rc[1] < irow \/ (rc[1] = irow /\ rc[2] < icol))}

RectIdle ==
    /\ rect_pc = "off"
    /\ grid_nrow = 0
    /\ grid_ncol = 0
    /\ rect_domains = 0
    /\ split_array = <<>>
    /\ irow = 0
    /\ icol = 0

RectInit ==
    /\ rect_pc = "zeros"
    /\ grid_nrow \in 1 .. MaxGridRow
    /\ grid_ncol \in 1 .. MaxGridCol
    /\ rect_domains \in 1 .. MaxRectDomains
    /\ split_array = <<>>
    /\ irow = 0
    /\ icol = 0

\* split_array = np.zeros((nrow, ncol), dtype=int)
RectZeros ==
    /\ rect_pc = "zeros"
    /\ split_array' = [rc \in RectCells |-> 0]
    /\ rect_pc' = "loop"
    /\ UNCHANGED <<grid_nrow, grid_ncol, rect_domains, irow, icol>>
    /\ UNCHANGED <<diagVars, prtVars, flowVars>>

\* one pass of the body of the nested for loops
RectLoopBody ==
    /\ rect_pc = "loop"
    /\ split_array' = [split_array EXCEPT
                         ![<<irow, icol>>] = RectIsub(icol, grid_ncol, rect_domains)]
    /\ IF icol + 1 < grid_ncol
       THEN /\ icol' = icol + 1
            /\ UNCHANGED <<irow, rect_pc>>
       ELSE /\ icol' = 0
            /\ irow' = irow + 1
            /\ rect_pc' = IF irow + 1 < grid_nrow THEN "loop" ELSE "done"
    /\ UNCHANGED <<grid_nrow, grid_ncol, rect_domains>>
    /\ UNCHANGED <<diagVars, prtVars, flowVars>>

(***************************************************************************)
(* Model-splitter example 1: the diagonal splitting array.                 *)
(***************************************************************************)
\* a mutant: the slice ncol: shrunk to the single column ncol
DiagSlice_OneColumn(c0, ncols) == {c0} \cap (0 .. ncols - 1)

\* the columns array[row, ncol:] addresses (empty when ncol >= the width)
DiagSlice(c0, ncols) == c0 .. ncols - 1

DiagCells == (0 .. modelgrid_nrow - 1) \X (0 .. modelgrid_ncol - 1)

DiagIdle ==
    /\ diag_pc = "off"
    /\ modelgrid_nrow = 0
    /\ modelgrid_ncol = 0
    /\ array = <<>>
    /\ array_ncol = 0
    /\ row = 0

DiagInit ==
    /\ diag_pc = "ones"
    /\ modelgrid_nrow \in 1 .. MaxModelRow
    /\ modelgrid_ncol \in 1 .. MaxModelCol
    /\ array = <<>>
    /\ array_ncol = 0
    /\ row = 0

\* array = np.ones((modelgrid.nrow, modelgrid.ncol), dtype=int); ncol = 1
DiagOnes ==
    /\ diag_pc = "ones"
    /\ array' = [rc \in DiagCells |-> 1]
    /\ array_ncol' = 1
    /\ row' = 0
    /\ diag_pc' = "loop"
    /\ UNCHANGED <<modelgrid_nrow, modelgrid_ncol>>
    /\ UNCHANGED <<rectVars, prtVars, flowVars>>

\* one pass of: if row != 0 and row % 2 == 0: ncol += 1; array[row, ncol:] = 2
DiagLoopBody ==
    /\ diag_pc = "loop"
    /\ LET nc == IF row # 0 /\ row % 2 = 0 THEN array_ncol + 1 ELSE array_ncol
       IN  /\ array_ncol' = nc
           /\ array' = [rc \in DiagCells |->
                          IF rc[1] = row /\ rc[2] \in DiagSlice(nc, modelgrid_ncol)
                          THEN 2 ELSE array[rc]]
    /\ row' = row + 1
    /\ diag_pc' = IF row + 1 < modelgrid_nrow THEN "loop" ELSE "done"
    /\ UNCHANGED <<modelgrid_nrow, modelgrid_ncol>>
    /\ UNCHANGED <<rectVars, prtVars, flowVars>>


(***************************************************************************)
(* Particle tracking example 3 (prt_ex3): the set-up cells, in the order   *)
(* the notebook runs them, and the stress periods of the simulation run.   *)
(***************************************************************************)
nlay == 3
nrow == 21
ncol == 20
delr == 500
delc == 500

\* wells: (layer, row, col, discharge)
wells == << <<0, 10, 9, -75000>>, <<2, 12, 4, -100000>> >>

\* drain = (0, 14, (9, 20))
drain == <<0, 14, <<9, 20>>>>

\* tdis_pd: (perlen, nstp, tsmult), tsmult written in tenths (1.5 is 15)
tdis_pd == << <<100000, 1, 10>>, <<36500, 10, 15>>, <<100000, 1, 10>> >>

\* the MODPATH 7 release configuration
rel_minl == 0
rel_maxl == 0
rel_minr == 2
rel_maxr == 3
rel_minc == 2
rel_maxc == 3
rowcelldivisions == 5
columncelldivisions == 5
\* local z of the release points, 0.5, written in tenths
localz == 5

\* a mutant: the stop value counted in
PyRange_Inclusive(start, stop, step) ==
    IF stop < start THEN <<>>
    ELSE [n \in 1 .. ((stop - start) \div step) + 1 |-> start + (n - 1) * step]

\* list(range(start, stop, step)) for step > 0
PyRange(start, stop, step) ==
    IF stop <= start THEN <<>>
    ELSE [n \in 1 .. ((stop - start + step - 1) \div step) |-> start + (n - 1) * step]

SeqRange(s) == {s[n] : n \in DOMAIN s}

\* node = ncol * (nrow * k + i) + j
Node(k, i, j) == ncol * (nrow * k + i) + j

\* a Python value stored in a nodes list: an int, or a one-element list
PyInt(v) == [kind |-> "int", val |-> v]
PyList1(v) == [kind |-> "list", val |-> v]

\* a mutant: the well record handed on with its discharge
no_flow_KeepsRate(w) == <<w[1], w[2], w[3], w[4]>>

\* def no_flow(w): return w[0], w[1], w[2], 0
no_flow(w) == <<w[1], w[2], w[3], 0>>

PrtCells2D == (0 .. nrow - 1) \X (0 .. ncol - 1)

\* np.ones((nrow, ncol), dtype=np.int32)
ones == [rc \in PrtCells2D |-> 1]

\* a[rows, cols] = v
Paint(a, rows, cols, v) ==
    [rc \in PrtCells2D |-> IF rc[1] \in rows /\ rc[2] \in cols THEN v ELSE a[rc]]

\* a mutant: the river column painted before the drain row
IzoneLayer1_DrainLast ==
    Paint(Paint(Paint(ones, {wells[1][2]}, {wells[1][3]}, 2),
                0 .. nrow - 1, {ncol - 1}, 5),
          {drain[2]}, drain[3][1] .. drain[3][2] - 1, 4)

\* layer 1 of get_izone: the well, then the drain row, then the river column
IzoneLayer1 ==
    Paint(Paint(Paint(ones, {wells[1][2]}, {wells[1][3]}, 2),
                {drain[2]}, drain[3][1] .. drain[3][2] - 1, 4),
          0 .. nrow - 1, {ncol - 1}, 5)

\* layer 3 of get_izone
IzoneLayer3 == Paint(ones, {wells[2][2]}, {wells[2][3]}, 3)

\* np.mgrid[1050:2000:100, 8550:9500:100].astype(float).reshape(2, -1).T
MGridPoints ==
    LET xs == PyRange(1050, 2000, 100)
        ys == PyRange(8550, 9500, 100)
    IN  [n \in 1 .. Len(xs) * Len(ys) |->
            <<xs[((n - 1) \div Len(ys)) + 1], ys[((n - 1) % Len(ys)) + 1]>>]

\* a sequence of integers in non-decreasing order
SortAscending(s) ==
    [n \in 1 .. Len(s) |->
        CHOOSE v \in SeqRange(s) :
            /\ Cardinality({m \in DOMAIN s : s[m] < v}) < n
            /\ n <= Cardinality({m \in DOMAIN s : s[m] <= v})]

Column(pts, c) == [n \in DOMAIN pts |-> pts[n][c]]

\* np.sort(pts, axis=0): every column sorted on its own
SortAxis0(pts, width) ==
    LET cols == [c \in 1 .. width |-> SortAscending(Column(pts, c))]
    IN  [n \in DOMAIN pts |-> [c \in 1 .. width |-> cols[c][n]]]

\* np.insert(pts, 2, z, axis=1) on two-column rows
InsertZ(pts, z) == [n \in DOMAIN pts |-> <<pts[n][1], pts[n][2], z>>]

\* the n-th point (n from 0) which lrcpd.to_coords(prt.modelgrid, localz=True)
\* yields: the cells of the region row by row, in each cell the centres of the
\* rowcelldivisions x columncelldivisions subdivisions
TemplatePoint(n) ==
    LET percell == rowcelldivisions * columncelldivisions
        width   == rel_maxc - rel_minc + 1
        cellno  == n \div percell
        sub     == n % percell
        i       == rel_minr + (cellno \div width)
        j       == rel_minc + (cellno % width)
        sr      == sub \div columncelldivisions
        sc      == sub % columncelldivisions
        x       == j * delr + ((2 * sc + 1) * delr) \div (2 * columncelldivisions)
        y       == (nrow - i) * delc - ((2 * sr + 1) * delc) \div (2 * rowcelldivisions)
    IN  <<x, y, localz>>

TemplateCount ==
    (rel_maxl - rel_minl + 1) * (rel_maxr - rel_minr + 1) * (rel_maxc - rel_minc + 1)
        * rowcelldivisions * columncelldivisions

\* np.allclose on two arrays of the same shape holding exact values
allclose(a, b) == a = b

PrtIdle ==
    /\ prt_pc = "off"
    /\ prt_i = 0
    /\ rd = <<>>
    /\ nodes = <<>>
    /\ izone = <<>>
    /\ wel_spd = <<>>
    /\ dd = <<>>
    /\ prt_release_points = <<>>
    /\ mp7_coords = <<>>
    /\ mp7_release_points = <<>>
    /\ assert_ok = FALSE
    /\ release_times = <<>>
    /\ prp = <<>>
    /\ kper = 0
    /\ totim = 0
    /\ wel_log = <<>>

PrtInit ==
    /\ prt_pc = "rd"
    /\ prt_i = 0
    /\ rd = <<>>
    /\ nodes = [well1 |-> <<>>, well2 |-> <<>>, drain |-> <<>>, river |-> <<>>]
    /\ izone = <<>>
    /\ wel_spd = <<>>
    /\ dd = <<>>
    /\ prt_release_points = <<>>
    /\ mp7_coords = <<>>
    /\ mp7_release_points = <<>>
    /\ assert_ok = FALSE
    /\ release_times = <<>>
    /\ prp = <<>>
    /\ kper = 0
    /\ totim = 0
    /\ wel_log = <<>>

\* for i in range(nrow): rd.append([(0, i, ncol - 1), ...])
PrtRiverData ==
    /\ prt_pc = "rd"
    /\ rd' = Append(rd, <<0, prt_i, ncol - 1>>)
    /\ IF prt_i + 1 < nrow
       THEN prt_i' = prt_i + 1 /\ prt_pc' = "rd"
       ELSE prt_i' = 0 /\ prt_pc' = "nodes_wells"
    /\ UNCHANGED <<nodes, izone, wel_spd, dd, prt_release_points, mp7_coords,
                   mp7_release_points, assert_ok, release_times, prp, kper,
                   totim, wel_log>>
    /\ UNCHANGED <<rectVars, diagVars, flowVars>>

\* for idx, (k, i, j, _) in enumerate(wells):
\*     nodes[f"well{idx + 1}"].append(ncol * (nrow * k + i) + j)
PrtNodesWells ==
    /\ prt_pc = "nodes_wells"
    /\ LET w == wells[prt_i + 1]
           n == PyInt(Node(w[1], w[2], w[3]))
       IN  nodes' = IF prt_i = 0
                    THEN [nodes EXCEPT !.well1 = Append(@, n)]
                    ELSE [nodes EXCEPT !.well2 = Append(@, n)]
    /\ IF prt_i + 1 < Len(wells)
       THEN prt_i' = prt_i + 1 /\ prt_pc' = "nodes_wells"
       ELSE prt_i' = 0 /\ prt_pc' = "nodes_drain"
    /\ UNCHANGED <<rd, izone, wel_spd, dd, prt_release_points, mp7_coords,
                   mp7_release_points, assert_ok, release_times, prp, kper,
                   totim, wel_log>>
    /\ UNCHANGED <<rectVars, diagVars, flowVars>>

\* for j in drain[2]:
\*     k, i = drain[:2]
\*     nodes["drain"].append([ncol * (nrow * k + i) + j])
PrtNodesDrain ==
    /\ prt_pc = "nodes_drain"
    /\ LET j == drain[3][prt_i + 1]
       IN  nodes' = [nodes EXCEPT
                       !.drain = Append(@, PyList1(Node(drain[1], drain[2], j)))]
    /\ IF prt_i + 1 < Len(drain[3])
       THEN prt_i' = prt_i + 1 /\ prt_pc' = "nodes_drain"
       ELSE prt_i' = 0 /\ prt_pc' = "nodes_river"
    /\ UNCHANGED <<rd, izone, wel_spd, dd, prt_release_points, mp7_coords,
                   mp7_release_points, assert_ok, release_times, prp, kper,
                   totim, wel_log>>
    /\ UNCHANGED <<rectVars, diagVars, flowVars>>

\* for rivspec in rd:
\*     k, i, j = rivspec[0]
\*     nodes["river"].append(ncol * (nrow * k + i) + j)
PrtNodesRiver ==
    /\ prt_pc = "nodes_river"
    /\ LET c == rd[prt_i + 1]
       IN  nodes' = [nodes EXCEPT !.river = Append(@, PyInt(Node(c[1], c[2], c[3])))]
    /\ IF prt_i + 1 < Len(rd)
       THEN prt_i' = prt_i + 1 /\ prt_pc' = "nodes_river"
       ELSE prt_i' = 0 /\ prt_pc' = "izone"
    /\ UNCHANGED <<rd, izone, wel_spd, dd, prt_release_points, mp7_coords,
                   mp7_release_points, assert_ok, release_times, prp, kper,
                   totim, wel_log>>
    /\ UNCHANGED <<rectVars, diagVars, flowVars>>

\* izone = get_izone(): layer 1 an array, layer 2 the scalar 1, layer 3 an array
PrtGetIzone ==
    /\ prt_pc = "izone"
    /\ izone' = << [scalar |-> FALSE, v |-> 0, a |-> IzoneLayer1],
                   [scalar |-> TRUE, v |-> 1, a |-> ones],
                   [scalar |-> FALSE, v |-> 0, a |-> IzoneLayer3] >>
    /\ prt_pc' = "wel"
    /\ UNCHANGED <<prt_i, rd, nodes, wel_spd, dd, prt_release_points,
                   mp7_coords, mp7_release_points, assert_ok, release_times,
                   prp, kper, totim, wel_log>>
    /\ UNCHANGED <<rectVars, diagVars, flowVars>>

\* nf_wells = [no_flow(w) for w in wells]
\* stress_period_data={0: nf_wells, 1: wells, 2: wells}
PrtWel ==
    /\ prt_pc = "wel"
    /\ LET nf_wells == [n \in DOMAIN wells |-> no_flow(wells[n])]
       IN  wel_spd' = [p \in {0, 1, 2} |-> IF p = 0 THEN nf_wells ELSE wells]
    /\ prt_pc' = "dd"
    /\ UNCHANGED <<prt_i, rd, nodes, izone, dd, prt_release_points,
                   mp7_coords, mp7_release_points, assert_ok, release_times,
                   prp, kper, totim, wel_log>>
    /\ UNCHANGED <<rectVars, diagVars, flowVars>>

\* dd = [[drain[0], drain[1], i + drain[2][0], ...]
\*       for i in range(drain[2][1] - drain[2][0])]
PrtDrainData ==
    /\ prt_pc = "dd"
    /\ dd' = Append(dd, <<drain[1], drain[2], prt_i + drain[3][1]>>)
    /\ IF prt_i + 1 < drain[3][2] - drain[3][1]
       THEN prt_i' = prt_i + 1 /\ prt_pc' = "dd"
       ELSE prt_i' = 0 /\ prt_pc' = "mgrid"
    /\ UNCHANGED <<rd, nodes, izone, wel_spd, prt_release_points, mp7_coords,
                   mp7_release_points, assert_ok, release_times, prp, kper,
                   totim, wel_log>>
    /\ UNCHANGED <<rectVars, diagVars, flowVars>>

\* prt_release_points = np.sort(np.mgrid[...]...reshape(2, -1).T, axis=0)
PrtGenerateXY ==
    /\ prt_pc = "mgrid"
    /\ prt_release_points' = SortAxis0(MGridPoints, 2)
    /\ prt_pc' = "insert_z"
    /\ UNCHANGED <<prt_i, rd, nodes, izone, wel_spd, dd, mp7_coords,
                   mp7_release_points, assert_ok, release_times, prp, kper,
                   totim, wel_log>>
    /\ UNCHANGED <<rectVars, diagVars, flowVars>>

\* prt_release_points = np.insert(prt_release_points, 2, 0.5, axis=1)
PrtAddZ ==
    /\ prt_pc = "insert_z"
    /\ prt_release_points' = InsertZ(prt_release_points, localz)
    /\ prt_pc' = "to_coords"
    /\ UNCHANGED <<prt_i, rd, nodes, izone, wel_spd, dd, mp7_coords,
                   mp7_release_points, assert_ok, release_times, prp, kper,
                   totim, wel_log>>
    /\ UNCHANGED <<rectVars, diagVars, flowVars>>

\* list(lrcpd.to_coords(prt.modelgrid, localz=True)): one point yielded
PrtTemplateYield ==
    /\ prt_pc = "to_coords"
    /\ mp7_coords' = Append(mp7_coords, TemplatePoint(prt_i))
    /\ IF prt_i + 1 < TemplateCount
       THEN prt_i' = prt_i + 1 /\ prt_pc' = "to_coords"
       ELSE prt_i' = 0 /\ prt_pc' = "compare"
    /\ UNCHANGED <<rd, nodes, izone, wel_spd, dd, prt_release_points,
                   mp7_release_points, assert_ok, release_times, prp, kper,
                   totim, wel_log>>
    /\ UNCHANGED <<rectVars, diagVars, flowVars>>

\* mp7_release_points = np.sort(np.array(list(...)), axis=0)
\* assert np.allclose(mp7_release_points, prt_release_points)
PrtCompare ==
    /\ prt_pc = "compare"
    /\ mp7_release_points' = SortAxis0(mp7_coords, 3)
    /\ assert_ok' = allclose(mp7_release_points', prt_release_points)
    /\ prt_pc' = IF assert_ok' THEN "release_times" ELSE "failed"
    /\ UNCHANGED <<prt_i, rd, nodes, izone, wel_spd, dd, prt_release_points,
                   mp7_coords, release_times, prp, kper, totim, wel_log>>
    /\ UNCHANGED <<rectVars, diagVars, flowVars>>

\* release_times = list(range(90000, 90200, 20))
PrtReleaseTimes ==
    /\ prt_pc = "release_times"
    /\ release_times' = PyRange(90000, 90200, 20)
    /\ prt_pc' = "prp"
    /\ UNCHANGED <<prt_i, rd, nodes, izone, wel_spd, dd, prt_release_points,
                   mp7_coords, mp7_release_points, assert_ok, prp, kper,
                   totim, wel_log>>
    /\ UNCHANGED <<rectVars, diagVars, flowVars>>

\* ModflowPrtprp(nreleasepts=len(release_points), nreleasetimes=len(release_times),
\*               releasetimes=[(t,) for t in release_times])
PrtPrp ==
    /\ prt_pc = "prp"
    /\ prp' = [nreleasepts |-> TemplateCount,
               nreleasetimes |-> Len(release_times),
               releasetimes |-> release_times]
    /\ prt_pc' = "run"
    /\ UNCHANGED <<prt_i, rd, nodes, izone, wel_spd, dd, prt_release_points,
                   mp7_coords, mp7_release_points, assert_ok, release_times,
                   kper, totim, wel_log>>
    /\ UNCHANGED <<rectVars, diagVars, flowVars>>

\* sim.run_simulation(): one stress period of the run.  The well package
\* applies the records given for the period (the last ones given when the
\* period has none) from the start of the period to its end.
PrtRunPeriod ==
    /\ prt_pc = "run"
    /\ LET active == IF kper \in DOMAIN wel_spd THEN wel_spd[kper]
                     ELSE wel_log[Len(wel_log)].wells
           perlen == tdis_pd[kper + 1][1]
       IN  /\ wel_log' = Append(wel_log, [kper |-> kper, start |-> totim,
                                          end |-> totim + perlen, wells |-> active])
           /\ totim' = totim + perlen
    /\ kper' = kper + 1
    /\ prt_pc' = IF kper + 1 < Len(tdis_pd) THEN "run" ELSE "done"
    /\ UNCHANGED <<prt_i, rd, nodes, izone, wel_spd, dd, prt_release_points,
                   mp7_coords, mp7_release_points, assert_ok, release_times,
                   prp>>
    /\ UNCHANGED <<rectVars, diagVars, flowVars>>

(***************************************************************************)
(* The notebooks as programs: every notebook is the sequence of the calls  *)
(* its cells make on simulation objects and on files.  A record names the  *)
(* call, the Python variable holding the simulation, the workspace or the  *)
(* file concerned, the step of the parallel exercise (1 elsewhere) and the *)
(* source line.                                                            *)
(*   load          MFSimulation.load(sim_ws=ws)                            *)
(*   new           MFSimulation(sim_ws=ws), or a helper returning one      *)
(*   config        a package is added or an attribute is set               *)
(*   set_sim_path  sim.set_sim_path(ws)                                    *)
(*   write         sim.write_simulation()                                  *)
(*   run           sim.run_simulation(); name is the extra output file     *)
(*   run_parallel  sim.run_simulation(processors=nr_cores)                 *)
(*   read          output read through the simulation object (heads, obs)  *)
(*   read_output   an output file of the run opened by path                *)
(*   write_file    mfsplit.save_node_mapping(path)                         *)
(*   read_file     Mf6Splitter.load_node_mapping(path)                     *)
(*   set_split     the splitting array is made; name says by what          *)
(*   choose_split  step 2: the splitting array, by use_metis               *)
(*   split         mfsplit.split_model(array)                              *)
(*   count_models, assert_file, list_csv, assert_last, read_csvs: step 4   *)
(***************************************************************************)
\* step1_run_base_watershed.ipynb
Step1Cells ==
    <<[op |-> "load", sim |-> "sim", ws |-> "data/watershed", name |-> "", step |-> 1, line |-> 90],
      [op |-> "set_sim_path", sim |-> "sim", ws |-> "base_dir", name |-> "", step |-> 1, line |-> 135],
      [op |-> "write", sim |-> "sim", ws |-> "", name |-> "", step |-> 1, line |-> 144],
      [op |-> "run", sim |-> "sim", ws |-> "", name |-> "inner.csv", step |-> 1, line |-> 160],
      [op |-> "read", sim |-> "sim", ws |-> "", name |-> "", step |-> 1, line |-> 195] >>

\* step2_split_watershed.ipynb
Step2Cells ==
    <<[op |-> "load", sim |-> "base_sim", ws |-> "base_dir", name |-> "", step |-> 2, line |-> 142],
      [op |-> "choose_split", sim |-> "", ws |-> "", name |-> "", step |-> 2, line |-> 222],
      [op |-> "split", sim |-> "parallel_sim", ws |-> "", name |-> "", step |-> 2, line |-> 267],
      [op |-> "config", sim |-> "parallel_sim", ws |-> "", name |-> "", step |-> 2, line |-> 317],
      [op |-> "set_sim_path", sim |-> "parallel_sim", ws |-> "parallel_dir", name |-> "", step |-> 2, line |-> 333],
      [op |-> "write", sim |-> "parallel_sim", ws |-> "", name |-> "", step |-> 2, line |-> 334],
      [op |-> "write_file", sim |-> "", ws |-> "parallel_dir", name |-> "mfsplit_node_mapping.hdf5", step |-> 2, line |-> 335] >>

\* step3_parallel_watershed.ipynb
Step3Cells ==
    <<[op |-> "load", sim |-> "parallel_sim", ws |-> "parallel_dir", name |-> "", step |-> 3, line |-> 87],
      [op |-> "load", sim |-> "serial_sim", ws |-> "base_dir", name |-> "", step |-> 3, line |-> 88],
      [op |-> "run_parallel", sim |-> "parallel_sim", ws |-> "", name |-> "inner.p", step |-> 3, line |-> 104],
      [op |-> "read", sim |-> "parallel_sim", ws |-> "", name |-> "", step |-> 3, line |-> 120],
      [op |-> "read_file", sim |-> "", ws |-> "parallel_dir", name |-> "mfsplit_node_mapping.hdf5", step |-> 3, line |-> 158],
      [op |-> "read", sim |-> "serial_sim", ws |-> "", name |-> "", step |-> 3, line |-> 176] >>

\* step4_parallel_solution.ipynb
Step4Cells ==
    <<[op |-> "load", sim |-> "parallel_sim", ws |-> "parallel_dir", name |-> "", step |-> 4, line |-> 333],
      [op |-> "count_models", sim |-> "parallel_sim", ws |-> "", name |-> "", step |-> 4, line |-> 336],
      [op |-> "assert_file", sim |-> "", ws |-> "base_dir", name |-> "inner.csv", step |-> 4, line |-> 359],
      [op |-> "list_csv", sim |-> "", ws |-> "parallel_dir", name |-> "inner.p", step |-> 4, line |-> 376],
      [op |-> "assert_last", sim |-> "", ws |-> "", name |-> "", step |-> 4, line |-> 380],
      [op |-> "read_csvs", sim |-> "", ws |-> "base_dir", name |-> "inner.csv", step |-> 4, line |-> 396] >>

\* the four steps of the parallel exercise, run in the listed order
ParallelCells == Step1Cells \o Step2Cells \o Step3Cells \o Step4Cells

\* the model-splitter example
SplitterCells ==
    <<[op |-> "load", sim |-> "sim", ws |-> "data/mf6-freyberg", name |-> "", step |-> 1, line |-> 492],
      [op |-> "set_sim_path", sim |-> "sim", ws |-> "splitter/temp", name |-> "", step |-> 1, line |-> 512],
      [op |-> "write", sim |-> "sim", ws |-> "", name |-> "", step |-> 1, line |-> 513],
      [op |-> "run", sim |-> "sim", ws |-> "", name |-> "", step |-> 1, line |-> 514],
      [op |-> "read", sim |-> "sim", ws |-> "", name |-> "", step |-> 1, line |-> 545],
      [op |-> "set_split", sim |-> "", ws |-> "", name |-> "loop", step |-> 1, line |-> 589],
      [op |-> "split", sim |-> "new_sim", ws |-> "", name |-> "", step |-> 1, line |-> 640],
      [op |-> "set_sim_path", sim |-> "new_sim", ws |-> "splitter/temp/split_model", name |-> "", step |-> 1, line |-> 672],
      [op |-> "write", sim |-> "new_sim", ws |-> "", name |-> "", step |-> 1, line |-> 673],
      [op |-> "run", sim |-> "new_sim", ws |-> "", name |-> "", step |-> 1, line |-> 674],
      [op |-> "read", sim |-> "new_sim", ws |-> "", name |-> "", step |-> 1, line |-> 706],
      [op |-> "set_split", sim |-> "", ws |-> "", name |-> "optimize_splitting_mask", step |-> 1, line |-> 762],
      [op |-> "split", sim |-> "new_sim", ws |-> "", name |-> "", step |-> 1, line |-> 805],
      [op |-> "set_sim_path", sim |-> "new_sim", ws |-> "splitter/temp/load_balanced_split", name |-> "", step |-> 1, line |-> 806],
      [op |-> "write", sim |-> "new_sim", ws |-> "", name |-> "", step |-> 1, line |-> 807],
      [op |-> "run", sim |-> "new_sim", ws |-> "", name |-> "", step |-> 1, line |-> 808],
      [op |-> "write_file", sim |-> "", ws |-> "splitter/temp", name |-> "my_node_map.hdf5", step |-> 1, line |-> 830],
      [op |-> "read_file", sim |-> "", ws |-> "splitter/temp", name |-> "my_node_map.hdf5", step |-> 1, line |-> 852],
      [op |-> "read", sim |-> "new_sim", ws |-> "", name |-> "", step |-> 1, line |-> 873] >>

\* the NetCDF output notebook
NetcdfCells ==
    <<[op |-> "load", sim |-> "sim", ws |-> "data/watershed", name |-> "", step |-> 1, line |-> 50],
      [op |-> "config", sim |-> "sim", ws |-> "", name |-> "", step |-> 1, line |-> 73],
      [op |-> "config", sim |-> "sim", ws |-> "", name |-> "", step |-> 1, line |-> 83],
      [op |-> "set_sim_path", sim |-> "sim", ws |-> "netcdf/temp/structured", name |-> "", step |-> 1, line |-> 104],
      [op |-> "write", sim |-> "sim", ws |-> "", name |-> "", step |-> 1, line |-> 114],
      [op |-> "run", sim |-> "sim", ws |-> "", name |-> "model.nc", step |-> 1, line |-> 124],
      [op |-> "read_output", sim |-> "", ws |-> "netcdf/temp/structured", name |-> "model.nc", step |-> 1, line |-> 154],
      [op |-> "config", sim |-> "sim", ws |-> "", name |-> "", step |-> 1, line |-> 196],
      [op |-> "set_sim_path", sim |-> "sim", ws |-> "netcdf/temp/mesh", name |-> "", step |-> 1, line |-> 218],
      [op |-> "write", sim |-> "sim", ws |-> "", name |-> "", step |-> 1, line |-> 228],
      [op |-> "run", sim |-> "sim", ws |-> "", name |-> "model.nc", step |-> 1, line |-> 238],
      [op |-> "read_output", sim |-> "", ws |-> "netcdf/temp/mesh", name |-> "model.nc", step |-> 1, line |-> 258] >>

\* a mutant: the simulation run before its files are written
PrtEx3Cells_RunFirst ==
    << [op |-> "new", sim |-> "sim", ws |-> "prt/temp/ex3/demo", name |-> "", step |-> 1, line |-> 295],
       [op |-> "config", sim |-> "sim", ws |-> "", name |-> "", step |-> 1, line |-> 319],
       [op |-> "run", sim |-> "sim", ws |-> "", name |-> "ex3-prt.trk.csv", step |-> 1, line |-> 864],
       [op |-> "write", sim |-> "sim", ws |-> "", name |-> "", step |-> 1, line |-> 863],
       [op |-> "read", sim |-> "sim", ws |-> "", name |-> "", step |-> 1, line |-> 881],
       [op |-> "read_output", sim |-> "", ws |-> "prt/temp/ex3/demo", name |-> "ex3-prt.trk.csv", step |-> 1, line |-> 898] >>

\* prt_ex3.ipynb
PrtEx3Cells ==
    <<[op |-> "new", sim |-> "sim", ws |-> "prt/temp/ex3/demo", name |-> "", step |-> 1, line |-> 295],
      [op |-> "config", sim |-> "sim", ws |-> "", name |-> "", step |-> 1, line |-> 319],
      [op |-> "write", sim |-> "sim", ws |-> "", name |-> "", step |-> 1, line |-> 863],
      [op |-> "run", sim |-> "sim", ws |-> "", name |-> "ex3-prt.trk.csv", step |-> 1, line |-> 864],
      [op |-> "read", sim |-> "sim", ws |-> "", name |-> "", step |-> 1, line |-> 881],
      [op |-> "read_output", sim |-> "", ws |-> "prt/temp/ex3/demo", name |-> "ex3-prt.trk.csv", step |-> 1, line |-> 898] >>

\* prt_whirls_animation.ipynb
WhirlsCells ==
    <<[op |-> "new", sim |-> "sim", ws |-> "prt/temp/whirls-prt", name |-> "", step |-> 1, line |-> 150],
      [op |-> "config", sim |-> "sim", ws |-> "", name |-> "", step |-> 1, line |-> 152],
      [op |-> "write", sim |-> "sim", ws |-> "", name |-> "", step |-> 1, line |-> 295],
      [op |-> "run", sim |-> "sim", ws |-> "", name |-> "whirls-prt-prt.trk.csv", step |-> 1, line |-> 296],
      [op |-> "read_output", sim |-> "", ws |-> "prt/temp/whirls-prt", name |-> "whirls-prt-prt.trk.csv", step |-> 1, line |-> 318] >>

\* the transport example (source water identification)
GwtCells ==
    <<[op |-> "new", sim |-> "sim_gwf", ws |-> "gwt/gwf", name |-> "", step |-> 1, line |-> 601],
      [op |-> "write", sim |-> "sim_gwf", ws |-> "", name |-> "", step |-> 1, line |-> 604],
      [op |-> "run", sim |-> "sim_gwf", ws |-> "", name |-> "", step |-> 1, line |-> 605],
      [op |-> "new", sim |-> "sim_gwt", ws |-> "gwt/gwt", name |-> "", step |-> 1, line |-> 623],
      [op |-> "write", sim |-> "sim_gwt", ws |-> "", name |-> "", step |-> 1, line |-> 624],
      [op |-> "run", sim |-> "sim_gwt", ws |-> "", name |-> "", step |-> 1, line |-> 625],
      [op |-> "read", sim |-> "sim_gwf", ws |-> "", name |-> "", step |-> 1, line |-> 641],
      [op |-> "read", sim |-> "sim_gwt", ws |-> "", name |-> "", step |-> 1, line |-> 650],
      [op |-> "read", sim |-> "sim_gwt", ws |-> "", name |-> "", step |-> 1, line |-> 681],
      [op |-> "new", sim |-> "sim_gwf", ws |-> "gwt/gwf", name |-> "", step |-> 1, line |-> 703],
      [op |-> "write", sim |-> "sim_gwf", ws |-> "", name |-> "", step |-> 1, line |-> 706],
      [op |-> "run", sim |-> "sim_gwf", ws |-> "", name |-> "", step |-> 1, line |-> 707],
      [op |-> "new", sim |-> "sim_gwt", ws |-> "gwt/gwt", name |-> "", step |-> 1, line |-> 709],
      [op |-> "write", sim |-> "sim_gwt", ws |-> "", name |-> "", step |-> 1, line |-> 710],
      [op |-> "run", sim |-> "sim_gwt", ws |-> "", name |-> "", step |-> 1, line |-> 711],
      [op |-> "read", sim |-> "sim_gwt", ws |-> "", name |-> "", step |-> 1, line |-> 713],
      [op |-> "new", sim |-> "sim_gwf", ws |-> "gwt/gwf", name |-> "", step |-> 1, line |-> 722],
      [op |-> "write", sim |-> "sim_gwf", ws |-> "", name |-> "", step |-> 1, line |-> 725],
      [op |-> "run", sim |-> "sim_gwf", ws |-> "", name |-> "", step |-> 1, line |-> 726],
      [op |-> "new", sim |-> "sim_gwt", ws |-> "gwt/gwt", name |-> "", step |-> 1, line |-> 728],
      [op |-> "write", sim |-> "sim_gwt", ws |-> "", name |-> "", step |-> 1, line |-> 729],
      [op |-> "run", sim |-> "sim_gwt", ws |-> "", name |-> "", step |-> 1, line |-> 730],
      [op |-> "read", sim |-> "sim_gwt", ws |-> "", name |-> "", step |-> 1, line |-> 732],
      [op |-> "new", sim |-> "sim_gwf", ws |-> "gwt/gwf", name |-> "", step |-> 1, line |-> 741],
      [op |-> "write", sim |-> "sim_gwf", ws |-> "", name |-> "", step |-> 1, line |-> 744],
      [op |-> "run", sim |-> "sim_gwf", ws |-> "", name |-> "", step |-> 1, line |-> 745],
      [op |-> "new", sim |-> "sim_gwt", ws |-> "gwt/gwt", name |-> "", step |-> 1, line |-> 747],
      [op |-> "write", sim |-> "sim_gwt", ws |-> "", name |-> "", step |-> 1, line |-> 748],
      [op |-> "run", sim |-> "sim_gwt", ws |-> "", name |-> "", step |-> 1, line |-> 749],
      [op |-> "read", sim |-> "sim_gwt", ws |-> "", name |-> "", step |-> 1, line |-> 751] >>

\* build_base_watershed.ipynb
BuildCells ==
    <<[op |-> "new", sim |-> "sim", ws |-> "data/watershed", name |-> "", step |-> 1, line |-> 432],
      [op |-> "config", sim |-> "sim", ws |-> "", name |-> "", step |-> 1, line |-> 438],
      [op |-> "write", sim |-> "sim", ws |-> "", name |-> "", step |-> 1, line |-> 540] >>

Notebooks == {"parallel", "splitter", "netcdf", "prt_ex3", "whirls", "gwt", "build"}

CellsOf(n) ==
    CASE n = "parallel" -> ParallelCells
      [] n = "splitter" -> SplitterCells
      [] n = "netcdf"   -> NetcdfCells
      [] n = "prt_ex3"  -> PrtEx3Cells
      [] n = "whirls"   -> WhirlsCells
      [] n = "gwt"      -> GwtCells
      [] n = "build"    -> BuildCells
      [] OTHER          -> <<>>

Workspaces ==
    {"none"} \cup
    ((UNION {{CellsOf(n)[c].ws : c \in DOMAIN CellsOf(n)} : n \in Notebooks}) \ {""})

SimNames ==
    (UNION {{CellsOf(n)[c].sim : c \in DOMAIN CellsOf(n)} : n \in Notebooks}) \ {""}

\* the data directories the repository ships
ShippedData == {"data/watershed", "data/mf6-freyberg"}

File(w, n, r, s) == [ws |-> w, name |-> n, rank |-> r, by |-> s]

OnDisk(w, n, r) == \E f \in disk : f.ws = w /\ f.name = n /\ f.rank = r

\* files written over what is on disk
Written(new) ==
    {f \in disk : ~ \E g \in new : g.ws = f.ws /\ g.name = f.name /\ g.rank = f.rank}
        \cup new

Running == nb \in Notebooks /\ ~halted /\ cell <= Len(CellsOf(nb))

CurOp == CellsOf(nb)[cell]

\* a mutant: the else branch never taken
SplitArraySource_AlwaysMetis(metis) == "optimize_splitting_mask"

\* if use_metis: split_array = mfsplit.optimize_splitting_mask(nparts=nr_domains)
\* else: the nested loop of the notebook fills split_array
SplitArraySource(metis) == IF metis THEN "optimize_splitting_mask" ELSE "loop"

\* the ranks of a run on n processes, one convergence file each
Ranks(n) == 0 .. n - 1

\* range(nr_models) of the list comprehension of step 4
CsvRanks(n) == [k \in 1 .. n |-> k - 1]

FlowIdle ==
    /\ nb = "off"
    /\ cell = 0
    /\ files = <<>>
    /\ sims = <<>>
    /\ disk = {}
    /\ use_metis = TRUE
    /\ nr_domains = 0
    /\ nr_cores = 0
    /\ split_source = "none"
    /\ split_used = "none"
    /\ split_models = 0
    /\ nr_models = 0
    /\ csv_inner_par = <<>>
    /\ halted = FALSE

FlowInit ==
    /\ nb \in Notebooks
    /\ cell = 1
    /\ files = [w \in Workspaces |-> IF w \in ShippedData THEN "written" ELSE "absent"]
    /\ sims = [s \in SimNames |-> [ws |-> "none", dirty |-> FALSE]]
    /\ disk = {File(w, "mfsim.nam", -1, 0) : w \in ShippedData}
    /\ use_metis \in (IF nb = "parallel" THEN BOOLEAN ELSE {TRUE})
    /\ nr_domains \in (IF nb = "parallel" THEN 1 .. MaxFlowDomains ELSE {2})
    /\ nr_cores \in (IF nb = "parallel" THEN 1 .. nr_domains ELSE {2})
    /\ split_source = "none"
    /\ split_used = "none"
    /\ split_models = 0
    /\ nr_models = 0
    /\ csv_inner_par = <<>>
    /\ halted = FALSE

\* sim = flopy.mf6.MFSimulation.load(sim_ws=ws); fails without the name file
FlowLoad ==
    /\ Running
    /\ CurOp.op = "load"
    /\ IF OnDisk(CurOp.ws, "mfsim.nam", -1)
       THEN /\ sims' = [sims EXCEPT ![CurOp.sim] = [ws |-> CurOp.ws, dirty |-> FALSE]]
            /\ cell' = cell + 1
            /\ UNCHANGED halted
       ELSE /\ halted' = TRUE
            /\ UNCHANGED <<sims, cell>>
    /\ UNCHANGED <<nb, files, disk, use_metis, nr_domains, nr_cores,
                   split_source, split_used, split_models, nr_models,
                   csv_inner_par>>
    /\ UNCHANGED <<rectVars, diagVars, prtVars>>

\* sim = flopy.mf6.MFSimulation(sim_ws=ws, ...)
FlowNew ==
    /\ Running
    /\ CurOp.op = "new"
    /\ sims' = [sims EXCEPT ![CurOp.sim] = [ws |-> CurOp.ws, dirty |-> TRUE]]
    /\ cell' = cell + 1
    /\ UNCHANGED <<nb, files, disk, use_metis, nr_domains, nr_cores,
                   split_source, split_used, split_models, nr_models,
                   csv_inner_par, halted>>
    /\ UNCHANGED <<rectVars, diagVars, prtVars>>

\* packages are added to the simulation or attributes are set
FlowConfig ==
    /\ Running
    /\ CurOp.op = "config"
    /\ sims' = [sims EXCEPT ![CurOp.sim].dirty = TRUE]
    /\ cell' = cell + 1
    /\ UNCHANGED <<nb, files, disk, use_metis, nr_domains, nr_cores,
                   split_source, split_used, split_models, nr_models,
                   csv_inner_par, halted>>
    /\ UNCHANGED <<rectVars, diagVars, prtVars>>

\* sim.set_sim_path(ws)
FlowSetSimPath ==
    /\ Running
    /\ CurOp.op = "set_sim_path"
    /\ sims' = [sims EXCEPT ![CurOp.sim] = [ws |-> CurOp.ws, dirty |-> TRUE]]
    /\ cell' = cell + 1
    /\ UNCHANGED <<nb, files, disk, use_metis, nr_domains, nr_cores,
                   split_source, split_used, split_models, nr_models,
                   csv_inner_par, halted>>
    /\ UNCHANGED <<rectVars, diagVars, prtVars>>

\* sim.write_simulation(): the input files go to the workspace of the object
FlowWrite ==
    /\ Running
    /\ CurOp.op = "write"
    /\ LET w == sims[CurOp.sim].ws
       IN  /\ files' = [files EXCEPT ![w] = "written"]
           /\ disk' = Written({File(w, "mfsim.nam", -1, CurOp.step)})
           /\ split_models' = IF CurOp.sim = "parallel_sim" /\ nb = "parallel"
                               THEN nr_domains ELSE split_models
    /\ sims' = [sims EXCEPT ![CurOp.sim].dirty = FALSE]
    /\ cell' = cell + 1
    /\ UNCHANGED <<nb, use_metis, nr_domains, nr_cores, split_source,
                   split_used, nr_models, csv_inner_par, halted>>
    /\ UNCHANGED <<rectVars, diagVars, prtVars>>

\* sim.run_simulation(): MODFLOW 6 runs on the files in the workspace and
\* leaves the heads and the extra output there; it fails without input
FlowRun ==
    /\ Running
    /\ CurOp.op = "run"
    /\ LET w == sims[CurOp.sim].ws
       IN  IF files[w] = "absent"
           THEN /\ halted' = TRUE
                /\ UNCHANGED <<files, disk, cell>>
           ELSE /\ files' = [files EXCEPT ![w] = "ran"]
                /\ disk' = Written({File(w, "heads", -1, CurOp.step)} \cup
                              (IF CurOp.name = "" THEN {}
                               ELSE {File(w, CurOp.name, -1, CurOp.step)}))
                /\ cell' = cell + 1
                /\ UNCHANGED halted
    /\ UNCHANGED <<nb, sims, use_metis, nr_domains, nr_cores, split_source,
                   split_used, split_models, nr_models, csv_inner_par>>
    /\ UNCHANGED <<rectVars, diagVars, prtVars>>

\* parallel_sim.run_simulation(processors=nr_cores): every process writes
\* its own convergence file inner.p<rank>.csv
FlowRunParallel ==
    /\ Running
    /\ CurOp.op = "run_parallel"
    /\ LET w == sims[CurOp.sim].ws
       IN  IF files[w] = "absent"
           THEN /\ halted' = TRUE
                /\ UNCHANGED <<files, disk, cell>>
           ELSE /\ files' = [files EXCEPT ![w] = "ran"]
                /\ disk' = Written({File(w, "heads", -1, CurOp.step)} \cup
                              {File(w, CurOp.name, r, CurOp.step) : r \in Ranks(nr_cores)})
                /\ cell' = cell + 1
                /\ UNCHANGED halted
    /\ UNCHANGED <<nb, sims, use_metis, nr_domains, nr_cores, split_source,
                   split_used, split_models, nr_models, csv_inner_par>>
    /\ UNCHANGED <<rectVars, diagVars, prtVars>>

\* gwf.output.head().get_data() and the like: fails without the output file
FlowRead ==
    /\ Running
    /\ CurOp.op = "read"
    /\ IF OnDisk(sims[CurOp.sim].ws, "heads", -1)
       THEN cell' = cell + 1 /\ UNCHANGED halted
       ELSE halted' = TRUE /\ UNCHANGED cell
    /\ UNCHANGED <<nb, files, sims, disk, use_metis, nr_domains, nr_cores,
                   split_source, split_used, split_models, nr_models,
                   csv_inner_par>>
    /\ UNCHANGED <<rectVars, diagVars, prtVars>>

\* pd.read_csv(ws / file), xa.open_dataset(ws / file)
FlowReadOutput ==
    /\ Running
    /\ CurOp.op = "read_output"
    /\ IF OnDisk(CurOp.ws, CurOp.name, -1)
       THEN cell' = cell + 1 /\ UNCHANGED halted
       ELSE halted' = TRUE /\ UNCHANGED cell
    /\ UNCHANGED <<nb, files, sims, disk, use_metis, nr_domains, nr_cores,
                   split_source, split_used, split_models, nr_models,
                   csv_inner_par>>
    /\ UNCHANGED <<rectVars, diagVars, prtVars>>

\* mfsplit.save_node_mapping(path)
FlowWriteFile ==
    /\ Running
    /\ CurOp.op = "write_file"
    /\ disk' = Written({File(CurOp.ws, CurOp.name, -1, CurOp.step)})
    /\ cell' = cell + 1
    /\ UNCHANGED <<nb, files, sims, use_metis, nr_domains, nr_cores,
                   split_source, split_used, split_models, nr_models,
                   csv_inner_par, halted>>
    /\ UNCHANGED <<rectVars, diagVars, prtVars>>

\* Mf6Splitter.load_node_mapping(path)
FlowReadFile ==
    /\ Running
    /\ CurOp.op = "read_file"
    /\ IF OnDisk(CurOp.ws, CurOp.name, -1)
       THEN cell' = cell + 1 /\ UNCHANGED halted
       ELSE halted' = TRUE /\ UNCHANGED cell
    /\ UNCHANGED <<nb, files, sims, disk, use_metis, nr_domains, nr_cores,
                   split_source, split_used, split_models, nr_models,
                   csv_inner_par>>
    /\ UNCHANGED <<rectVars, diagVars, prtVars>>

\* the model-splitter example makes its array by a loop of its own (example 1)
\* or by optimize_splitting_mask (example 2)
FlowSetSplit ==
    /\ Running
    /\ CurOp.op = "set_split"
    /\ split_source' = CurOp.name
    /\ cell' = cell + 1
    /\ UNCHANGED <<nb, files, sims, disk, use_metis, nr_domains, nr_cores,
                   split_used, split_models, nr_models, csv_inner_par,
                   halted>>
    /\ UNCHANGED <<rectVars, diagVars, prtVars>>

\* step 2: the splitting array, by use_metis
FlowChooseSplit ==
    /\ Running
    /\ CurOp.op = "choose_split"
    /\ split_source' = SplitArraySource(use_metis)
    /\ cell' = cell + 1
    /\ UNCHANGED <<nb, files, sims, disk, use_metis, nr_domains, nr_cores,
                   split_used, split_models, nr_models, csv_inner_par,
                   halted>>
    /\ UNCHANGED <<rectVars, diagVars, prtVars>>

\* parallel_sim = mfsplit.split_model(split_array): a new simulation object
FlowSplitModel ==
    /\ Running
    /\ CurOp.op = "split"
    /\ split_used' = split_source
    /\ sims' = [sims EXCEPT ![CurOp.sim] = [ws |-> "none", dirty |-> TRUE]]
    /\ cell' = cell + 1
    /\ UNCHANGED <<nb, files, disk, use_metis, nr_domains, nr_cores,
                   split_source, split_models, nr_models, csv_inner_par,
                   halted>>
    /\ UNCHANGED <<rectVars, diagVars, prtVars>>

\* nr_models = len(parallel_sim.model_names)
FlowCountModels ==
    /\ Running
    /\ CurOp.op = "count_models"
    /\ nr_models' = split_models
    /\ cell' = cell + 1
    /\ UNCHANGED <<nb, files, sims, disk, use_metis, nr_domains, nr_cores,
                   split_source, split_used, split_models, csv_inner_par,
                   halted>>
    /\ UNCHANGED <<rectVars, diagVars, prtVars>>

\* assert pl.Path.is_file(csv_inner_base)
FlowAssertFile ==
    /\ Running
    /\ CurOp.op = "assert_file"
    /\ IF OnDisk(CurOp.ws, CurOp.name, -1)
       THEN cell' = cell + 1 /\ UNCHANGED halted
       ELSE halted' = TRUE /\ UNCHANGED cell
    /\ UNCHANGED <<nb, files, sims, disk, use_metis, nr_domains, nr_cores,
                   split_source, split_used, split_models, nr_models,
                   csv_inner_par>>
    /\ UNCHANGED <<rectVars, diagVars, prtVars>>

\* csv_inner_par = [... f"inner.p{irank}.csv" for irank in range(nr_models)]
FlowListCsv ==
    /\ Running
    /\ CurOp.op = "list_csv"
    /\ csv_inner_par' = [k \in DOMAIN CsvRanks(nr_models) |->
                            [ws |-> CurOp.ws, name |-> CurOp.name,
                             rank |-> CsvRanks(nr_models)[k]]]
    /\ cell' = cell + 1
    /\ UNCHANGED <<nb, files, sims, disk, use_metis, nr_domains, nr_cores,
                   split_source, split_used, split_models, nr_models, halted>>
    /\ UNCHANGED <<rectVars, diagVars, prtVars>>

\* assert pl.Path.is_file(csv_inner_par[-1])
FlowAssertLast ==
    /\ Running
    /\ CurOp.op = "assert_last"
    /\ LET f == csv_inner_par[Len(csv_inner_par)]
       IN  IF OnDisk(f.ws, f.name, f.rank)
           THEN cell' = cell + 1 /\ UNCHANGED halted
           ELSE halted' = TRUE /\ UNCHANGED cell
    /\ UNCHANGED <<nb, files, sims, disk, use_metis, nr_domains, nr_cores,
                   split_source, split_used, split_models, nr_models,
                   csv_inner_par>>
    /\ UNCHANGED <<rectVars, diagVars, prtVars>>

\* df_base = pandas.read_csv(csv_inner_base)
\* df_par = [pandas.read_csv(f) for f in csv_inner_par]
FlowReadCsvs ==
    /\ Running
    /\ CurOp.op = "read_csvs"
    /\ IF /\ OnDisk(CurOp.ws, CurOp.name, -1)
          /\ \A k \in DOMAIN csv_inner_par :
                OnDisk(csv_inner_par[k].ws, csv_inner_par[k].name, csv_inner_par[k].rank)
       THEN cell' = cell + 1 /\ UNCHANGED halted
       ELSE halted' = TRUE /\ UNCHANGED cell
    /\ UNCHANGED <<nb, files, sims, disk, use_metis, nr_domains, nr_cores,
                   split_source, split_used, split_models, nr_models,
                   csv_inner_par>>
    /\ UNCHANGED <<rectVars, diagVars, prtVars>>

(***************************************************************************)
(* Specifications.                                                         *)
(***************************************************************************)
RectNext ==
    \/ RectZeros
    \/ RectLoopBody

InitRect == RectInit /\ DiagIdle /\ PrtIdle /\ FlowIdle

SpecRect == InitRect /\ [][RectNext]_vars

DiagNext ==
    \/ DiagOnes
    \/ DiagLoopBody

InitDiag == DiagInit /\ RectIdle /\ PrtIdle /\ FlowIdle

SpecDiag == InitDiag /\ [][DiagNext]_vars

PrtNext ==
    \/ PrtRiverData
    \/ PrtNodesWells
    \/ PrtNodesDrain
    \/ PrtNodesRiver
    \/ PrtGetIzone
    \/ PrtWel
    \/ PrtDrainData
    \/ PrtGenerateXY
    \/ PrtAddZ
    \/ PrtTemplateYield
    \/ PrtCompare
    \/ PrtReleaseTimes
    \/ PrtPrp
    \/ PrtRunPeriod

InitPrt == PrtInit /\ RectIdle /\ DiagIdle /\ FlowIdle

SpecPrt == InitPrt /\ [][PrtNext]_vars

Next ==
    \/ FlowLoad
    \/ FlowNew
    \/ FlowConfig
    \/ FlowSetSimPath
    \/ FlowWrite
    \/ FlowRun
    \/ FlowRunParallel
    \/ FlowRead
    \/ FlowReadOutput
    \/ FlowWriteFile
    \/ FlowReadFile
    \/ FlowSetSplit
    \/ FlowChooseSplit
    \/ FlowSplitModel
    \/ FlowCountModels
    \/ FlowAssertFile
    \/ FlowListCsv
    \/ FlowAssertLast
    \/ FlowReadCsvs

Init == FlowInit /\ RectIdle /\ DiagIdle /\ PrtIdle

Spec == Init /\ [][Next]_vars

(***************************************************************************)
(* Claims about the rectangular split.                                     *)
(***************************************************************************)
RectExact(c) == (c * rect_domains) \div grid_ncol

\* C5 (as stated): every assigned cell (irow, icol) holds
\* floor(icol * nr_domains / ncol); that number lies in 0..nr_domains-1, does
\* not depend on irow and is non-decreasing in icol.
C5_AsStated ==
    \A rc \in RectFilled :
        /\ split_array[rc] = RectExact(rc[2])
        /\ split_array[rc] \in 0 .. rect_domains - 1
        /\ \A rc2 \in RectFilled :
              /\ rc2[2] = rc[2] => split_array[rc2] = split_array[rc]
              /\ rc2[2] <= rc[2] => split_array[rc2] <= split_array[rc]

\* C5 (amended): every assigned cell holds the floor of the double-precision
\* quotient icol / (ncol / nr_domains): that is floor(icol * nr_domains / ncol),
\* or one less where icol * nr_domains is a positive multiple of ncol; it lies
\* in 0..nr_domains-1, does not depend on irow and is non-decreasing in icol.
C5_Amended ==
    \A rc \in RectFilled :
        /\ \/ split_array[rc] = RectExact(rc[2])
           \/ /\ split_array[rc] = RectExact(rc[2]) - 1
              /\ rc[2] > 0
              /\ (rc[2] * rect_domains) % grid_ncol = 0
        /\ split_array[rc] \in 0 .. rect_domains - 1
        /\ \A rc2 \in RectFilled :
              /\ rc2[2] = rc[2] => split_array[rc2] = split_array[rc]
              /\ rc2[2] <= rc[2] => split_array[rc2] <= split_array[rc]

\* the loop has run to its end on the 18-column grid split in 14, where the
\* rounding of 18 / 14 puts column 9 in domain 6
C5_Witness ==
    /\ rect_pc = "done"
    /\ grid_nrow = 2
    /\ grid_ncol = 18
    /\ rect_domains = 14
    /\ split_array[<<1, 9>>] = 6
    /\ split_array[<<1, 17>>] = 13

(***************************************************************************)
(* Claims about the diagonal splitting array.                              *)
(***************************************************************************)
Adjacent(a, b) ==
    \/ a[1] = b[1] /\ (a[2] = b[2] + 1 \/ b[2] = a[2] + 1)
    \/ a[2] = b[2] /\ (a[1] = b[1] + 1 \/ b[1] = a[1] + 1)

RECURSIVE Flood(_, _)
Flood(front, S) ==
    LET more == front \cup {c \in S : \E d \in front : Adjacent(c, d)}
    IN  IF more = front THEN front ELSE Flood(more, S)

EdgeConnected(S) == S = {} \/ Flood({CHOOSE c \in S : TRUE}, S) = S

DiagRegion(v) == {rc \in DiagCells : array[rc] = v}

\* C6: once the loop has finished on a grid with nrow >= 1 and ncol >= 2, every
\* cell is numbered 1 or 2, both numbers occur, and the cells of each number
\* form a single edge-connected region.
C6_Contiguous ==
    (diag_pc = "done" /\ modelgrid_ncol >= 2) =>
        /\ \A rc \in DiagCells : array[rc] \in {1, 2}
        /\ DiagRegion(1) # {}
        /\ DiagRegion(2) # {}
        /\ EdgeConnected(DiagRegion(1))
        /\ EdgeConnected(DiagRegion(2))

\* the loop has finished on a grid where the diagonal has moved three columns
\* and a late row lies wholly in model 1 (the slice ncol: was empty there)
C6_Witness ==
    /\ diag_pc = "done"
    /\ modelgrid_ncol >= 3
    /\ array_ncol >= 3
    /\ \E r \in 0 .. modelgrid_nrow - 1 :
          \A c \in 0 .. modelgrid_ncol - 1 : array[<<r, c>>] = 1
    /\ array[<<2, 2>>] = 2

(***************************************************************************)
(* Claims about the workflow of the notebooks.                             *)
(***************************************************************************)
\* the workspace whose output the call about to run reads
OutputWorkspaces(o) ==
    CASE o.op = "read" -> {sims[o.sim].ws}
      [] o.op \in {"read_output", "assert_file"} -> {o.ws}
      [] o.op = "assert_last" -> {csv_inner_par[Len(csv_inner_par)].ws}
      [] o.op = "read_csvs" ->
            {o.ws} \cup {csv_inner_par[k].ws : k \in DOMAIN csv_inner_par}
      [] OTHER -> {}

\* C1: in every notebook and for every simulation object the order is
\* configuration, write_simulation, run_simulation, reading of output: a
\* simulation about to be run has its input files written and no change made
\* since they were written, and output about to be read comes from a workspace
\* whose simulation has been run since its files were last written.
C1_Order ==
    Running =>
        /\ CurOp.op \in {"run", "run_parallel"} =>
              /\ ~sims[CurOp.sim].dirty
              /\ files[sims[CurOp.sim].ws] = "written"
        /\ CurOp.op = "write" => sims[CurOp.sim].ws # "none"
        /\ CurOp.op = "read" => ~sims[CurOp.sim].dirty
        /\ \A w \in OutputWorkspaces(CurOp) : files[w] = "ran"

\* the NetCDF notebook has run to its end: two rounds of configuration, write,
\* run and read on the same simulation object
C1_Witness ==
    /\ nb = "netcdf"
    /\ cell = Len(NetcdfCells) + 1
    /\ ~halted
    /\ files["netcdf/temp/structured"] = "ran"
    /\ files["netcdf/temp/mesh"] = "ran"
    /\ ~sims["sim"].dirty

\* the files the call about to run needs on disk
NeededFiles(o) ==
    CASE o.op = "load" -> {[ws |-> o.ws, name |-> "mfsim.nam", rank |-> -1]}
      [] o.op = "read" -> {[ws |-> sims[o.sim].ws, name |-> "heads", rank |-> -1]}
      [] o.op \in {"read_file", "read_output", "assert_file"} ->
            {[ws |-> o.ws, name |-> o.name, rank |-> -1]}
      [] o.op = "assert_last" -> {csv_inner_par[Len(csv_inner_par)]}
      [] o.op = "read_csvs" ->
            {[ws |-> o.ws, name |-> o.name, rank |-> -1]}
                \cup {csv_inner_par[k] : k \in DOMAIN csv_inner_par}
      [] OTHER -> {}

\* the step of the parallel exercise that is to have written a file
WriterStep(w, n) ==
    IF w = "data/watershed" THEN 0
    ELSE IF w = "base_dir" THEN 1
    ELSE IF n \in {"mfsim.nam", "mfsplit_node_mapping.hdf5"} THEN 2
    ELSE 3

\* C2 (as stated): with the four parallel notebooks executed in order, every
\* file the call about to run reads is on disk, written by the step that is to
\* provide it (the base simulation, its heads and inner.csv by step 1, the split
\* simulation and the node mapping by step 2, the parallel heads and
\* inner.p<rank>.csv by the step-3 run), none of them by a later step.
C2_AsStated ==
    (nb = "parallel" /\ cell <= Len(ParallelCells)) =>
        \A n \in NeededFiles(CurOp) :
            \E f \in disk :
                /\ f.ws = n.ws /\ f.name = n.name /\ f.rank = n.rank
                /\ f.by = WriterStep(n.ws, n.name)
                /\ f.by <= CurOp.step

\* C3 (as stated): the list of parallel convergence files step 4 builds holds
\* exactly the files written by the ranks of the step-3 run.
C3_AsStated ==
    (nb = "parallel" /\ Len(csv_inner_par) > 0) =>
        {csv_inner_par[k] : k \in DOMAIN csv_inner_par}
            = {[ws |-> f.ws, name |-> f.name, rank |-> f.rank] :
                  f \in {g \in disk : g.name = "inner.p" /\ g.ws = "parallel_dir"}}

\* C4 (as stated): the array given to split_model in step 2 is always the result
\* of optimize_splitting_mask.
C4_AsStated ==
    (nb = "parallel" /\ split_used # "none") =>
        split_used = "optimize_splitting_mask"

\* C4 (amended): the array given to split_model in step 2 is the result of
\* optimize_splitting_mask when use_metis is true, and the array filled by the
\* nested loop of the notebook when use_metis is false.
C4_Amended ==
    (nb = "parallel" /\ split_used # "none") =>
        /\ use_metis => split_used = "optimize_splitting_mask"
        /\ ~use_metis => split_used = "loop"

\* step 2 has written the split simulation with use_metis false
C4_Witness ==
    /\ nb = "parallel"
    /\ ~use_metis
    /\ split_used = "loop"
    /\ files["parallel_dir"] = "written"

(***************************************************************************)
(* Claims about particle tracking example 3.                               *)
(***************************************************************************)
PrtPast(labels) == prt_pc \notin ({"off"} \cup labels)

NodeOfCell(c) == Node(c[1], c[2], c[3])

\* C7 (as stated): once both arrays are built, prt_release_points holds, as a
\* collection of points, the release points of the MP7 template: the same 100
\* distinct points.
C7_AsStated ==
    prt_pc \in {"release_times", "prp", "run", "done", "failed"} =>
        /\ SeqRange(prt_release_points) = SeqRange(mp7_coords)
        /\ Cardinality(SeqRange(prt_release_points)) = TemplateCount

\* C8 (as stated): once the nodes and the drain records are built, the well
\* lists hold the node of each well cell, the river list the node of every
\* river cell, the drain list the node of every cell with a drain record; every
\* listed node is an integer of the grid, and the node map is injective.
C8_AsStated ==
    PrtPast({"rd", "nodes_wells", "nodes_drain", "nodes_river", "izone", "wel", "dd"}) =>
        /\ nodes.well1 = <<PyInt(NodeOfCell(wells[1]))>>
        /\ nodes.well2 = <<PyInt(NodeOfCell(wells[2]))>>
        /\ SeqRange(nodes.river) = {PyInt(NodeOfCell(c)) : c \in SeqRange(rd)}
        /\ SeqRange(nodes.drain) = {PyInt(NodeOfCell(c)) : c \in SeqRange(dd)}
        /\ \A key \in DOMAIN nodes : \A n \in DOMAIN nodes[key] :
              /\ nodes[key][n].kind = "int"
              /\ nodes[key][n].val \in 0 .. nlay * nrow * ncol - 1
        /\ Cardinality({Node(k, rc[1], rc[2]) : k \in 0 .. nlay - 1, rc \in PrtCells2D})
              = nlay * nrow * ncol

\* the zone the map gives cell (k, i, j)
ZoneAt(k, i, j) ==
    IF izone[k + 1].scalar THEN izone[k + 1].v ELSE izone[k + 1].a[<<i, j>>]

PrtCells3D == {<<k, rc[1], rc[2]>> : k \in 0 .. nlay - 1, rc \in PrtCells2D}

WellCell(n) == <<wells[n][1], wells[n][2], wells[n][3]>>

\* C9 (as stated): the cell of well 1 has zone 2, the cell of well 2 zone 3,
\* every cell with a drain record zone 4, every cell with a river record zone
\* 5, every other cell zone 1.
C9_AsStated ==
    PrtPast({"rd", "nodes_wells", "nodes_drain", "nodes_river", "izone", "wel", "dd"}) =>
        \A c \in PrtCells3D :
            /\ c = WellCell(1) => ZoneAt(c[1], c[2], c[3]) = 2
            /\ c = WellCell(2) => ZoneAt(c[1], c[2], c[3]) = 3
            /\ c \in SeqRange(dd) => ZoneAt(c[1], c[2], c[3]) = 4
            /\ c \in SeqRange(rd) => ZoneAt(c[1], c[2], c[3]) = 5
            /\ c \notin {WellCell(1), WellCell(2)} \cup SeqRange(dd) \cup SeqRange(rd)
                  => ZoneAt(c[1], c[2], c[3]) = 1

\* C9 (amended): the cell of well 1 has zone 2, the cell of well 2 zone 3, every
\* cell with a river record zone 5 (the cell of row 14 in the last column, which
\* carries a drain record too, among them), every cell with a drain record and
\* no river record zone 4, every other cell zone 1.
C9_Amended ==
    PrtPast({"rd", "nodes_wells", "nodes_drain", "nodes_river", "izone", "wel", "dd"}) =>
        \A c \in PrtCells3D :
            /\ c = WellCell(1) => ZoneAt(c[1], c[2], c[3]) = 2
            /\ c = WellCell(2) => ZoneAt(c[1], c[2], c[3]) = 3
            /\ c \in SeqRange(dd) \ SeqRange(rd) => ZoneAt(c[1], c[2], c[3]) = 4
            /\ c \in SeqRange(rd) => ZoneAt(c[1], c[2], c[3]) = 5
            /\ c \notin {WellCell(1), WellCell(2)} \cup SeqRange(dd) \cup SeqRange(rd)
                  => ZoneAt(c[1], c[2], c[3]) = 1

\* the zone map and both record lists are built; the cell of row 14 in the last
\* column carries a drain and a river record and has the river zone
C9_Witness ==
    /\ prt_pc = "done"
    /\ <<0, 14, 19>> \in SeqRange(dd) \cap SeqRange(rd)
    /\ ZoneAt(0, 14, 19) = 5
    /\ ZoneAt(0, 14, 18) = 4
    /\ ZoneAt(0, 10, 9) = 2
    /\ ZoneAt(2, 12, 4) = 3

\* C10: in the finished run the wells pump nothing in stress period 0 and pump
\* at their configured rates in periods 1 and 2, at the same cells in all three
\* periods; period 0 lasts 100000 days and the first release is at 90000 days,
\* so pumping begins 100000 days into the simulation, 10000 days after the
\* first release.
C10_Pumping ==
    prt_pc = "done" =>
        /\ Len(wel_log) = 3
        /\ \A p \in 1 .. 3 : \A n \in DOMAIN wells :
              /\ Len(wel_log[p].wells) = Len(wells)
              /\ wel_log[p].kper = p - 1
              /\ wel_log[p].wells[n][1] = wells[n][1]
              /\ wel_log[p].wells[n][2] = wells[n][2]
              /\ wel_log[p].wells[n][3] = wells[n][3]
              /\ wel_log[p].wells[n][4] = (IF p = 1 THEN 0 ELSE wells[n][4])
              /\ wells[n][4] # 0
        /\ wel_log[1].start = 0
        /\ wel_log[1].end = 100000
        /\ release_times[1] = 90000
        /\ wel_log[2].start = 100000
        /\ wel_log[2].start = release_times[1] + 10000
        /\ wel_log[3].start = wel_log[2].end

\* the run has finished with well 1 pumping 75000 in period 1 after a period of rest
C10_Witness ==
    /\ prt_pc = "done"
    /\ wel_log[1].wells[1][4] = 0
    /\ wel_log[2].wells[1][4] = -75000
    /\ wel_log[3].wells[2][4] = -100000
    /\ release_times[1] = 90000

\* C11: once the release package is made, the release times are exactly the
\* times 90000 + 20 * k, k = 0..9, of the 200-day window starting at 90000 days:
\* the first is 90000, consecutive ones are 20 apart, the list is strictly
\* increasing, every release lies inside stress period 0, and nreleasetimes
\* given to the package is the number of release times.
C11_ReleaseTimes ==
    prt_pc \in {"run", "done"} =>
        /\ Len(release_times) = 10
        /\ \A n \in DOMAIN release_times : release_times[n] = 90000 + 20 * (n - 1)
        /\ SeqRange(release_times)
              = {t \in 90000 .. 90000 + 200 - 1 : (t - 90000) % 20 = 0}
        /\ release_times[1] = 90000
        /\ \A n \in 1 .. Len(release_times) - 1 :
              /\ release_times[n + 1] - release_times[n] = 20
              /\ release_times[n] < release_times[n + 1]
        /\ \A n \in DOMAIN release_times :
              /\ 0 <= release_times[n]
              /\ release_times[n] < tdis_pd[1][1]
              /\ prt_pc = "done" =>
                    /\ wel_log[1].kper = 0
                    /\ wel_log[1].start <= release_times[n]
                    /\ release_times[n] < wel_log[1].end
        /\ prp.nreleasetimes = Len(release_times)
        /\ prp.releasetimes = release_times

\* the run has finished with ten release times handed to the release package,
\* the last of them at 90180 days
C11_Witness ==
    /\ prt_pc = "done"
    /\ Len(release_times) = 10
    /\ release_times[10] = 90180
    /\ prp.nreleasetimes = 10
    /\ wel_log[1].end = 100000

====
